---- MODULE Spec2Model ----
(***************************************************************************)
(* A model of github.com/zc310/log: the sink registry (logOut), the level  *)
(* gate, the pooled Entry life cycle and the bulk Rotate/Close/SetPath     *)
(* operations of log.go, with the two formatters.                          *)
(*                                                                         *)
(* Go strings are sequences of tokens (a token is one or more characters   *)
(* that no operation of the package splits), so that fmt.Sprintf,          *)
(* strings.Split, strings.TrimPrefix and filepath.Join act on them as they *)
(* act on the characters.                                                  *)
(*                                                                         *)
(* Spec     : one goroutine calling the package's API, one call per step.  *)
(* SpecConc : several goroutines, each call split at the points where the  *)
(*            others can interleave.                                       *)
(***************************************************************************)
EXTENDS Integers, Sequences, FiniteSets, TLC

VARIABLES
    logLevel,   \* log.go:50   var logLevel int
    logPath,    \* log.go:54   var logPath string
    logOut,     \* log.go:52   var logOut map[string]*Write : key -> address of a Write
    writes,     \* the Write objects (log.go:60): address -> its out field
    ljs,        \* the live *lumberjack.Logger objects: address -> fields
    loggers,    \* the Log objects (log.go:64) built so far; loggers[1] is the default `log`
    pools,      \* per Log, its sync.Pool: the set of Entry addresses it holds
    entries,    \* the Entry objects (log.go:72): address -> [Time, Message]
    redirect,   \* what SetOutput was last given for a (level, prefix)
    steps,      \* how many API calls were made; the clock time.Now() reads
    last,       \* what the last API call did (its inputs, the Format calls, the writes)
    lock,       \* log.go:53   var lock sync.Mutex : 0 when free, else the holder
    thr         \* per goroutine: its position and locals (SpecConc)

vars == <<logLevel, logPath, logOut, writes, ljs, loggers, pools, entries,
          redirect, steps, last, lock, thr>>

----------------------------------------------------------------------------
(* Bounds of the model *)

\* API calls in a run of Spec, those of SetLevel apart
MaxSteps == 3
\* Calls the goroutines of SpecConc start in a run, all goroutines together
MaxCalls == 3
\* Arguments of a Print or Error call in a run of SpecArgs
MaxArgs == 2
\* Keys resolved in a run of SpecKeys, the two of the default Log apart
MaxDerived == 2

----------------------------------------------------------------------------
(* Strings *)

RECURSIVE Concat(_)
Concat(ss) == IF ss = <<>> THEN <<>> ELSE Head(ss) \o Concat(Tail(ss))

\* strings.HasPrefix / strings.TrimPrefix
HasPrefix(s, p) == Len(p) <= Len(s) /\ SubSeq(s, 1, Len(p)) = p
TrimPrefix(s, p) == IF HasPrefix(s, p) THEN SubSeq(s, Len(p) + 1, Len(s)) ELSE s

\* strings.Split(s, sep) for a one-token separator: always at least one piece
RECURSIVE SplitFrom(_, _, _)
SplitFrom(s, sep, cur) ==
    IF s = <<>> THEN <<cur>>
    ELSE IF Head(s) = sep THEN <<cur>> \o SplitFrom(Tail(s), sep, <<>>)
    ELSE SplitFrom(Tail(s), sep, Append(cur, Head(s)))
Split(s, sep) == SplitFrom(s, sep, <<>>)

\* strings.Join(elems, sep)
RECURSIVE JoinWith(_, _)
JoinWith(elems, sep) ==
    IF elems = <<>> THEN <<>>
    ELSE IF Len(elems) = 1 THEN Head(elems)
    ELSE Head(elems) \o <<sep>> \o JoinWith(Tail(elems), sep)

Digit(d) == CASE d = 0 -> "0" [] d = 1 -> "1" [] d = 2 -> "2" [] d = 3 -> "3"
              [] d = 4 -> "4" [] d = 5 -> "5" [] d = 6 -> "6" [] d = 7 -> "7"
              [] d = 8 -> "8" [] d = 9 -> "9"

\* fmt's %d
RECURSIVE NatDigits(_)
NatDigits(n) == IF n < 10 THEN <<Digit(n)>> ELSE Append(NatDigits(n \div 10), Digit(n % 10))
Itoa(n) == IF n < 0 THEN <<"-">> \o NatDigits(0 - n) ELSE NatDigits(n)

\* (mutant) the level printed without padding, as %d does
PadNone(n) == IF n < 0 THEN <<"-">> \o NatDigits(0 - n) ELSE NatDigits(n)

\* fmt's %.2d: at least two digits, zero padded
Pad2(n) ==
    LET ds == NatDigits(IF n < 0 THEN 0 - n ELSE n)
        p  == IF Len(ds) < 2 THEN <<"0">> \o ds ELSE ds
    IN  IF n < 0 THEN <<"-">> \o p ELSE p

----------------------------------------------------------------------------
(* path/filepath *)

\* filepath.Clean (Unix): "" is ".", slashes collapse, "." elements go, ".." elements
\* take the element before them, a rooted path keeps its root
RECURSIVE CleanSegs(_, _, _)
CleanSegs(segs, rooted, out) ==
    IF segs = <<>> THEN out
    ELSE LET s == Head(segs) IN
         IF s = <<>> \/ s = <<".">> THEN CleanSegs(Tail(segs), rooted, out)
         ELSE IF s = <<".", ".">> THEN
              IF out # <<>> /\ out[Len(out)] # <<".", ".">>
              THEN CleanSegs(Tail(segs), rooted, SubSeq(out, 1, Len(out) - 1))
              ELSE IF rooted THEN CleanSegs(Tail(segs), rooted, out)
              ELSE CleanSegs(Tail(segs), rooted, Append(out, s))
         ELSE CleanSegs(Tail(segs), rooted, Append(out, s))

Clean(p) ==
    IF p = <<>> THEN <<".">>
    ELSE LET rooted == Head(p) = "/"
             body   == JoinWith(CleanSegs(Split(p, "/"), rooted, <<>>), "/")
         IN  IF rooted THEN <<"/">> \o body
             ELSE IF body = <<>> THEN <<".">> ELSE body

\* filepath.Join: empty elements are ignored, the rest joined by "/" and cleaned
NonEmpty(elems) == SelectSeq(elems, LAMBDA e : e # <<>>)
Join(elems) ==
    IF NonEmpty(elems) = <<>> THEN <<>> ELSE Clean(JoinWith(NonEmpty(elems), "/"))

----------------------------------------------------------------------------
(* Go values passed to the log calls (interface{}), by dynamic type *)

StrV(s)    == [t |-> "string",   s |-> s,    elems |-> <<>>]
IntV(n)   == [t |-> "int",      s |-> Itoa(n), elems |-> <<>>]
ErrV(s)    == [t |-> "error",    s |-> s,    elems |-> <<>>]   \* s is what Error() returns
StringerV(s) == [t |-> "stringer", s |-> s,  elems |-> <<>>]   \* s is what String() returns
ChanV      == [t |-> "chan",     s |-> <<>>, elems |-> <<>>]   \* a value encoding/json refuses
ListV(vs)  == [t |-> "list",     s |-> <<>>, elems |-> vs]     \* a []interface{}

\* encoding/json.Marshal of a value: [ok, b]. A string is quoted, an int is its
\* digits, a slice is its elements in brackets, a struct without exported fields
\* (an error value, a Stringer) is {}, a channel is an UnsupportedTypeError
MarshalScalar(v) ==
    CASE v.t = "string" -> [ok |-> TRUE,  b |-> <<"\"">> \o v.s \o <<"\"">>]
      [] v.t = "int"    -> [ok |-> TRUE,  b |-> v.s]
      [] v.t = "chan"   -> [ok |-> FALSE, b |-> <<>>]
      [] OTHER          -> [ok |-> TRUE,  b |-> <<"{}">>]

Marshal(v) ==
    IF v.t = "list"
    THEN IF \E i \in 1..Len(v.elems) : ~MarshalScalar(v.elems[i]).ok
         THEN [ok |-> FALSE, b |-> <<>>]
         ELSE [ok |-> TRUE,
               b  |-> <<"[">> \o JoinWith([i \in 1..Len(v.elems) |-> MarshalScalar(v.elems[i]).b], ",")
                      \o <<"]">>]
    ELSE MarshalScalar(v)

\* fmt's %v of a value
Text(v) == IF v.t = "chan" THEN <<"0xc000010000">> ELSE v.s

TypeName(v) ==
    CASE v.t = "string" -> "string" [] v.t = "int" -> "int" [] v.t = "chan" -> "chan int"
      [] v.t = "error"  -> "*errors.errorString" [] OTHER -> "main.T"

\* fmt.Sprintf: each verb takes the next argument, a verb without one is
\* %!v(MISSING), arguments left over are listed in %!(EXTRA ...)
RECURSIVE Extra(_)
Extra(a) == IF a = <<>> THEN <<>>
            ELSE <<TypeName(Head(a)), "=">> \o Text(Head(a))
                 \o (IF Len(a) > 1 THEN <<", ">> ELSE <<>>) \o Extra(Tail(a))
RECURSIVE Sprintf(_, _)
Sprintf(format, a) ==
    IF format = <<>> THEN (IF a = <<>> THEN <<>> ELSE <<"%!(EXTRA ">> \o Extra(a) \o <<")">>)
    ELSE IF Head(format) = "%v"
         THEN IF a = <<>> THEN <<"%!v(MISSING)">> \o Sprintf(Tail(format), a)
              ELSE Text(Head(a)) \o Sprintf(Tail(format), Tail(a))
         ELSE <<Head(format)>> \o Sprintf(Tail(format), a)

\* time.Now().Format(time.RFC3339) at instant t
RFC3339(t) == <<"2006-01-02T15:04:0">> \o Itoa(t) \o <<"Z">>

----------------------------------------------------------------------------
(* Entry and the formatters *)

\* new(Entry): the zero Entry
ZeroEntry == [Time |-> <<>>, Message |-> [t |-> "nil", s |-> <<>>, elems |-> <<>>]]

\* Output's argument normalisation (log.go:167-179), one argument
NormalizeArg(arg) ==
    CASE arg.t = "error"    -> StrV(arg.s)
      [] arg.t = "stringer" -> StrV(arg.s)
      [] arg.t = "string"   -> arg
      [] OTHER              -> arg

\* (mutant) the Message is the slice also when there is one argument
OutputMessageAlwaysSlice(a) == ListV([i \in 1..Len(a) |-> NormalizeArg(a[i])])

\* Output's Message (log.go:167-184)
OutputMessage(a) ==
    LET b == [i \in 1..Len(a) |-> NormalizeArg(a[i])]
    IN  IF Len(b) = 1 THEN b[1] ELSE ListV(b)

\* Outputf's Message (log.go:152)
OutputfMessage(format, a) == StrV(Sprintf(format, a))

\* TextFormatter.Format up to the Write call: the bytes handed to w.Write, or the
\* json.Marshal error
TextFormatterBytes(entry) ==
    LET m == Marshal(entry.Message)
    IN  IF ~m.ok THEN [ok |-> FALSE, b |-> <<>>]
        ELSE [ok |-> TRUE, b |-> entry.Time \o <<"\t">> \o m.b \o <<"\n">>]

\* JSONFormatter.Format up to the Write call: Encoder.Encode marshals the Entry
\* by its json tags and appends a newline
JSONFormatterBytes(entry) ==
    LET m == Marshal(entry.Message)
    IN  IF ~m.ok THEN [ok |-> FALSE, b |-> <<>>]
        ELSE [ok |-> TRUE,
              b  |-> <<"{", "\"time\":">> \o Marshal(StrV(entry.Time)).b
                     \o <<",", "\"msg\":">> \o m.b \o <<"}", "\n">>]

FormatterBytes(f, entry) ==
    IF f = "JSONFormatter" THEN JSONFormatterBytes(entry) ELSE TextFormatterBytes(entry)

----------------------------------------------------------------------------
(* Package state: log.go:47-58 *)

pid        == 4242                      \* os.Getpid()
program    == "app"                     \* filepath.Base(os.Args[0])
maxSize    == 30
maxBackups == 0
maxAge     == 7
\* filepath.Join(os.TempDir(), "logs")
DefaultLogPath == Join(<< <<"/", "tmp">>, <<"logs">> >>)

\* Inputs of the calls
Levels   == {0, 2}                                   \* Logger levels
GLevels  == {-1, 0, 2}                               \* values given to SetLevel
Prefixes == {<<>>, <<"a", ".", "b">>}                \* "" and "a.b"
Paths    == {<<"/", "v">>, <<".", "/", "r">>}        \* "/v" and "./r"
Formatters == {"TextFormatter", "JSONFormatter"}
PrintArgs  == { <<StrV(<<"abc">>)>>, <<ErrV(<<"Error">>), ChanV>> }
\* The levels and categories of SpecKeys: no level, one digit, two digits
KeyLevels == {0, 3, 9, 10, 99}
Names == {"info", "error"}
\* The argument lists of SpecArgs: every dynamic type Output tells apart
ArgValues == {StrV(<<"abc">>), IntV(1), ErrV(<<"Error">>), StringerV(<<"str">>), ChanV}
ArgLists == UNION {[1..k -> ArgValues] : k \in 0..MaxArgs}
FatalArgs == { <<StrV(<<"abc">>)>>, <<ChanV>> }
\* What the goroutines of SpecConc build and print
ConcLevels == {0, 2}
ConcPrefixes == {<<>>}
ConcPaths == {<<"/", "v">>}
ConcPrintArgs == { <<StrV(<<"abc">>)>> }
PrintfArgs == { [format |-> <<"x=", "%v">>, a |-> <<IntV(1)>>] }

\* The io.Writer a Write holds in its out field: a *lumberjack.Logger (by address)
\* or another writer
LjOut(p)     == [kind |-> "lj",     ptr |-> p, stream |-> ""]
StreamOut(b) == [kind |-> "stream", ptr |-> 0, stream |-> b]

\* The n-th smallest address (1, 2, ...) not in `used`
RECURSIVE FreshAddr(_, _)
FreshAddr(used, n) ==
    LET a == CHOOSE x \in 1..(Cardinality(used) + 1) : x \notin used
    IN  IF n = 1 THEN a ELSE FreshAddr(used \cup {a}, n - 1)

\* m[k] = v on a Go map
MapPut(m, k, v) == [x \in (DOMAIN m) \cup {k} |-> IF x = k THEN v ELSE m[x]]
\* the function f without a
Without(f, dead) == [x \in (DOMAIN f) \ dead |-> f[x]]

\* The registry key of getOut and SetOutput: fmt.Sprintf("%d_%s_%s", level, name, prefix)
Key(level, name, prefix) == Itoa(level) \o <<"_", name, "_">> \o prefix

\* newOut's file name (log.go:225-232, 234)
FileName(path, level, name, prefix) ==
    Join(<<path>> \o Split(prefix, ".")
         \o << IF level = 0
               THEN <<program, "_", name, "-">> \o Itoa(pid) \o <<".log">>
               ELSE <<program, "_", name, "_">> \o Pad2(level) \o <<"-">> \o Itoa(pid) \o <<".log">> >>)

\* newOut (log.go:224-240): the lumberjack.Logger it builds
newOut(path, level, name, prefix) ==
    [Filename   |-> FileName(path, level, name, prefix),
     MaxSize    |-> maxSize,
     MaxBackups |-> maxBackups,
     MaxAge     |-> maxAge,
     Compress   |-> TRUE]

\* The registry as a value: R.logOut, R.writes, R.ljs
Reg == [logOut |-> logOut, writes |-> writes, ljs |-> ljs]

\* getOut's locked part (log.go:269-272): build a sink and bind the key to it
getOutInsert(R, path, level, name, prefix) ==
    LET a == Len(R.writes) + 1
        p == FreshAddr(DOMAIN R.ljs, 1)
    IN  [R |-> [logOut |-> MapPut(R.logOut, Key(level, name, prefix), a),
                writes |-> Append(R.writes, LjOut(p)),
                ljs    |-> MapPut(R.ljs, p, newOut(path, level, name, prefix))],
         w |-> a]

\* getOut (log.go:264-274) run by one goroutine alone
getOut(R, path, level, name, prefix) ==
    IF Key(level, name, prefix) \in DOMAIN R.logOut
    THEN [R |-> R, w |-> R.logOut[Key(level, name, prefix)]]
    ELSE getOutInsert(R, path, level, name, prefix)

\* New (log.go:131-143): the Log it returns and the registry afterwards
NewLog(R, path, level, prefix, poolId) ==
    LET i == getOut(R, path, level, "info", prefix)
        e == getOut(i.R, path, 0, "error", prefix)
    IN  [R |-> e.R,
         log |-> [info |-> i.w, err |-> e.w, pool |-> poolId,
                  Prefix |-> prefix, Level |-> level, Formatter |-> "TextFormatter"]]

----------------------------------------------------------------------------
(* Write: log.go:60-95. The lumberjack.Logger is the package's rotatable     *)
(* file: it opens its file on a Write when none is open, so it can be        *)
(* written after Close; the model keeps which of its methods were called.    *)

\* What p.out.Write(b) can come to: all of b written, an error after part of b
\* was written, or an error with nothing written
WriteResults == {"ok", "short", "fail"}

\* Write.Write (log.go:83-85) of bytes b to the Write at address a; wres is how the
\* write went (the streams of the model, byte buffers, always take all of b).
\* [err, wr: the bytes that reached a writer]
WriteWrite(a, b, wres) ==
    LET out == writes[a]
    IN  IF out.kind = "stream" \/ wres = "ok"
        THEN [err |-> "", wr |-> <<[sink |-> a, out |-> out, rec |-> b]>>]
        ELSE IF wres = "short"
        THEN [err |-> "short write",
              wr  |-> <<[sink |-> a, out |-> out, rec |-> SubSeq(b, 1, 1)]>>]
        ELSE [err |-> "write", wr |-> <<>>]

\* (mutant) Rotate with an unchecked type assertion, which panics on a stream
WriteRotateUnchecked(out) == [n |-> 1, panic |-> out.kind # "lj"]

\* Write.Rotate (log.go:86-90) on a Write whose out field is `out`
\* [n: calls of lumberjack's Rotate, panic: a failed type assertion]
WriteRotate(out) ==
    IF out.kind = "lj" THEN [n |-> 1, panic |-> FALSE] ELSE [n |-> 0, panic |-> FALSE]

\* Write.Close (log.go:91-95)
\* [n: calls of lumberjack's Close, panic]
WriteClose(out) ==
    IF out.kind = "lj" THEN [n |-> 1, panic |-> FALSE] ELSE [n |-> 0, panic |-> FALSE]

----------------------------------------------------------------------------
(* The log call: log.go:148-192 *)

\* (mutant) the gate with the comparison off by one
GateStrict(level) == logLevel > level

\* The level gate (log.go:149, 163)
Gate(level) == logLevel >= level

\* (mutant) a Get that hands out a pooled Entry and leaves it in the pool
PoolGetPeek(P, E, c) ==
    IF c = 0
    THEN LET kept == Without(E, P)
             e    == FreshAddr(DOMAIN kept, 1)
         IN  [pool |-> {}, entries |-> MapPut(kept, e, ZeroEntry), e |-> e]
    ELSE [pool |-> P, entries |-> E, e |-> c]

\* sync.Pool.Get on the pool holding the Entry addresses P: c is the pooled Entry
\* handed out, or 0 when the pool has nothing to give (it is empty, or the
\* collector emptied it) and New builds a zero Entry.  [pool, entries, e]
PoolGet(P, E, c) ==
    IF c = 0
    THEN LET kept == Without(E, P)
             e    == FreshAddr(DOMAIN kept, 1)
         IN  [pool |-> {}, entries |-> MapPut(kept, e, ZeroEntry), e |-> e]
    ELSE [pool |-> P \ {c}, entries |-> E, e |-> c]

\* sync.Pool.Put
PoolPut(P, e) == P \cup {e}

\* An Entry lying in a pool still holds the Time and the Message of the call that
\* put it there. The model writes them as Stale, a value that no call writes, so
\* that a field a later call did not overwrite shows as such
Stale == [Time |-> <<"stale">>, Message |-> [t |-> "stale", s |-> <<>>, elems |-> <<>>]]

\* (mutant) the Time of the Entry is left as the pool gave it
StampTimeForgotten(entry, t) == entry

\* entry.Time = time.Now().Format(time.RFC3339)  (log.go:151, 165)
StampTime(entry, t) == [entry EXCEPT !.Time = RFC3339(t)]

\* (mutant) the Message of the Entry is left as the pool gave it
SetMessageForgotten(entry, msg) == entry

\* entry.Message = ...  (log.go:152, 180-184)
SetMessage(entry, msg) == [entry EXCEPT !.Message = msg]

\* p.Formatter.Format(entry, w) (text_formatter.go:11-24, json_formatter.go:10-12):
\* nothing is written when json refuses the Message
Format(f, entry, w, wres) ==
    LET fb == FormatterBytes(f, entry)
    IN  IF ~fb.ok THEN [err |-> "json", wr |-> <<>>] ELSE WriteWrite(w, fb.b, wres)

\* What a call that the gate stops does
Skipped ==
    [passed |-> FALSE, pools |-> pools, entries |-> entries,
     fmts |-> <<>>, wr |-> <<>>, stderr |-> 0, e |-> 0]

\* (mutant) a body that returns on a Format error without the Put
EmitLeaving(l, w, msg, t, c, wres) ==
    LET p     == loggers[l]
        g     == PoolGet(pools[p.pool], entries, c)
        entry == SetMessage(StampTime(g.entries[g.e], t), msg)
        f     == Format(p.Formatter, entry, w, wres)
    IN  [passed  |-> TRUE,
         pools   |-> [pools EXCEPT ![p.pool] = IF f.err = "" THEN PoolPut(g.pool, g.e)
                                                ELSE g.pool],
         entries |-> [g.entries EXCEPT ![g.e] = Stale],
         fmts    |-> <<[sink |-> w, entry |-> entry, err |-> f.err]>>,
         wr      |-> f.wr,
         stderr  |-> IF f.err # "" THEN 1 ELSE 0,
         e       |-> g.e]

\* The body of Output and Outputf behind the gate (log.go:150-159, 164-190) on the
\* Log l with target w: Get, Time, Message, Format, the report to os.Stderr, Put.
\* e is the Entry the call had
Emit(l, w, msg, t, c, wres) ==
    LET p     == loggers[l]
        g     == PoolGet(pools[p.pool], entries, c)
        entry == SetMessage(StampTime(g.entries[g.e], t), msg)
        f     == Format(p.Formatter, entry, w, wres)
    IN  [passed  |-> TRUE,
         pools   |-> [pools EXCEPT ![p.pool] = PoolPut(g.pool, g.e)],
         entries |-> [g.entries EXCEPT ![g.e] = Stale],
         fmts    |-> <<[sink |-> w, entry |-> entry, err |-> f.err]>>,
         wr      |-> f.wr,
         stderr  |-> IF f.err # "" THEN 1 ELSE 0,
         e       |-> g.e]

\* (mutant) an Output that takes its Entry before it looks at the level
OutputGetsFirst(l, w, a, t, c, wres) ==
    IF Gate(loggers[l].Level) THEN Emit(l, w, OutputMessage(a), t, c, wres)
    ELSE LET g == PoolGet(pools[loggers[l].pool], entries, c)
         IN  [Skipped EXCEPT !.pools = [pools EXCEPT ![loggers[l].pool] = PoolPut(g.pool, g.e)],
                             !.entries = g.entries]

\* Log.Output (log.go:162-192)
Output(l, w, a, t, c, wres) ==
    IF Gate(loggers[l].Level) THEN Emit(l, w, OutputMessage(a), t, c, wres) ELSE Skipped

\* Log.Outputf (log.go:148-161)
Outputf(l, w, format, a, t, c, wres) ==
    IF Gate(loggers[l].Level) THEN Emit(l, w, OutputfMessage(format, a), t, c, wres) ELSE Skipped

----------------------------------------------------------------------------
(* Spec: the API, one call per step *)

NoLast ==
    [op |-> "init", twice |-> FALSE, afterClose |-> FALSE, logger |-> 0, ret |-> 0, t |-> 0, format |-> <<>>,
     a |-> <<>>, passed |-> FALSE, fmts |-> <<>>, wr |-> <<>>, stderr |-> 0,
     panicked |-> FALSE, n |-> <<>>, closed |-> <<>>, arg |-> <<>>,
     e |-> 0,
     pre |-> [logOut |-> <<>>, writes |-> <<>>, ljs |-> <<>>, logPath |-> <<>>,
              loggers |-> <<>>]]

Pre == [logOut |-> logOut, writes |-> writes, ljs |-> ljs, logPath |-> logPath,
        loggers |-> loggers]

\* func init() (log.go:127-129): SetDefault(New(0, "")), on the variables' initial values
InitLog == NewLog([logOut |-> <<>>, writes |-> <<>>, ljs |-> <<>>], DefaultLogPath, 0, <<>>, 1)

Init ==
    /\ logLevel = 0
    /\ logPath = DefaultLogPath
    /\ logOut = InitLog.R.logOut
    /\ writes = InitLog.R.writes
    /\ ljs = InitLog.R.ljs
    /\ loggers = <<InitLog.log>>
    /\ pools = << {} >>
    /\ entries = <<>>
    /\ redirect = <<>>
    /\ steps = 0
    /\ last = NoLast
    /\ lock = 0
    /\ thr = <<>>

\* The choices a log call on Log l with target w leaves to its surroundings: the
\* instant, what the pool hands out, how the write to a lumberjack.Logger goes
CallChoices(l, w) ==
    {ch \in [t : {steps + 1},
             c : IF pools[loggers[l].pool] = {} THEN {0} ELSE pools[loggers[l].pool],
             wres : WriteResults] :
        writes[w].kind = "stream" => ch.wres = "ok"}

\* Fatal and Fatalf end in a panic: the model takes the caller that does not recover
\* from it, so no call follows theirs
Running == last.op \notin {"Fatal", "Fatalf"}

\* One more API call
Step == Running /\ steps < MaxSteps /\ steps' = steps + 1

\* The state after a log call with result r
Called(op, l, format, a, t, r) ==
    /\ Step
    /\ pools' = r.pools
    /\ entries' = r.entries
    /\ last' = [NoLast EXCEPT !.op = op, !.afterClose = (last.op = "Close"),
                              !.logger = l, !.t = t, !.format = format, !.a = a, !.passed = r.passed,
                              !.fmts = r.fmts, !.wr = r.wr, !.stderr = r.stderr,
                              !.e = r.e, !.pre = Pre]
    /\ UNCHANGED <<logLevel, logPath, logOut, writes, ljs, loggers, redirect, lock, thr>>

\* Log.Print (log.go:199-201)
Log_Print(l, a) ==
    \E ch \in CallChoices(l, loggers[l].info) :
        Called("Print", l, <<>>, a, ch.t, Output(l, loggers[l].info, a, ch.t, ch.c, ch.wres))

\* Log.Printf (log.go:196-198)
Log_Printf(l, format, a) ==
    \E ch \in CallChoices(l, loggers[l].info) :
        Called("Printf", l, format, a, ch.t,
               Outputf(l, loggers[l].info, format, a, ch.t, ch.c, ch.wres))

\* Log.Error (log.go:206-208)
Log_Error(l, a) ==
    \E ch \in CallChoices(l, loggers[l].err) :
        Called("Error", l, <<>>, a, ch.t, Output(l, loggers[l].err, a, ch.t, ch.c, ch.wres))

\* Log.Errorf (log.go:202-204)
Log_Errorf(l, format, a) ==
    \E ch \in CallChoices(l, loggers[l].err) :
        Called("Errorf", l, format, a, ch.t,
               Outputf(l, loggers[l].err, format, a, ch.t, ch.c, ch.wres))

\* The package functions, which forward to the default Log (log.go:275-292). The
\* default Log is the package's unexported variable log: callers reach its methods
\* through these, and call the methods above on the Logs they built (2, 3, ...)
Infof(format, a) == Log_Printf(1, format, a)
Info(a) == Log_Print(1, a)
Errorf(format, a) == Log_Errorf(1, format, a)
Error(a) == Log_Error(1, a)
Printf(format, a) == Log_Printf(1, format, a)
Print_(a) == Log_Print(1, a)

\* SetLevel (log.go:99-101)
SetLevel(v) ==
    /\ Running
    /\ logLevel' = v
    /\ last' = [NoLast EXCEPT !.op = "SetLevel"]
    /\ UNCHANGED <<steps, logPath, logOut, writes, ljs, loggers, pools, entries, redirect,
                   lock, thr>>

\* Fatal (log.go:295-298), its first statement: log.Error(a...)
Fatal(a) ==
    \E ch \in CallChoices(1, loggers[1].err) :
        Called("Fatal", 1, <<>>, a, ch.t, Output(1, loggers[1].err, a, ch.t, ch.c, ch.wres))

\* Fatalf (log.go:301-304), its first statement: log.Errorf(format, a...)
Fatalf(format, a) ==
    \E ch \in CallChoices(1, loggers[1].err) :
        Called("Fatalf", 1, format, a, ch.t,
               Outputf(1, loggers[1].err, format, a, ch.t, ch.c, ch.wres))

\* (mutant) a panic raised only when the record was emitted
PanicIfLogged ==
    /\ last.op \in {"Fatal", "Fatalf"} /\ ~last.panicked /\ last.passed
    /\ last' = [last EXCEPT !.panicked = TRUE]
    /\ UNCHANGED <<logLevel, logPath, logOut, writes, ljs, loggers, pools, entries,
                   redirect, steps, lock, thr>>

\* The second statement of Fatal and Fatalf: panic(...) (log.go:297, 303), whose
\* value, the fmt.Sprint of the arguments, the model does not keep
Panic ==
    /\ last.op \in {"Fatal", "Fatalf"} /\ ~last.panicked
    /\ last' = [last EXCEPT !.panicked = TRUE]
    /\ UNCHANGED <<logLevel, logPath, logOut, writes, ljs, loggers, pools, entries,
                   redirect, steps, lock, thr>>

\* The state after a call that built a Log
Built(op, n) ==
    /\ Step
    /\ logOut' = n.R.logOut
    /\ writes' = n.R.writes
    /\ ljs' = n.R.ljs
    /\ loggers' = Append(loggers, n.log)
    /\ pools' = Append(pools, {})
    /\ last' = [NoLast EXCEPT !.op = op, !.logger = Len(loggers) + 1,
                              !.ret = Len(loggers) + 1]
    /\ UNCHANGED <<logLevel, logPath, entries, redirect, lock, thr>>

\* New (log.go:131-143)
New(level, prefix) ==
    Built("New", NewLog(Reg, logPath, level, prefix, Len(loggers) + 1))

\* V (log.go:305-307), which Log.V forwards to (log.go:119-121)
V(level) ==
    Built("V", NewLog(Reg, logPath, level, <<>>, Len(loggers) + 1))

\* NewWithPrefix (log.go:309-311), which Log.NewWithPrefix forwards to (log.go:123-125)
NewWithPrefix(prefix) ==
    Built("NewWithPrefix", NewLog(Reg, logPath, 0, prefix, Len(loggers) + 1))

\* (mutant) one Formatter variable shared by every Log
WithFormatterForAll(l, f) ==
    /\ Step
    /\ loggers' = [i \in 1..Len(loggers) |-> [loggers[i] EXCEPT !.Formatter = f]]
    /\ last' = [NoLast EXCEPT !.op = "WithFormatter", !.logger = l, !.ret = l, !.arg = f]
    /\ UNCHANGED <<logLevel, logPath, logOut, writes, ljs, pools, entries, redirect,
                   lock, thr>>

\* Log.WithFormatter (log.go:144-147): last.ret is the Log it returns
WithFormatter(l, f) ==
    /\ Step
    /\ loggers' = [loggers EXCEPT ![l].Formatter = f]
    /\ last' = [NoLast EXCEPT !.op = "WithFormatter", !.logger = l, !.ret = l, !.arg = f]
    /\ UNCHANGED <<logLevel, logPath, logOut, writes, ljs, pools, entries, redirect,
                   lock, thr>>

\* for _, w := range logOut { w.Rotate() } over the keys not yet visited
\* acc = [n: per Write the calls of lumberjack's Rotate, panic]
RECURSIVE RotateRange(_, _)
RotateRange(keys, acc) ==
    IF keys = {} THEN acc
    ELSE LET k == CHOOSE x \in keys : TRUE
             a == logOut[k]
             r == WriteRotate(writes[a])
         IN  RotateRange(keys \ {k},
                         [n |-> [acc.n EXCEPT ![a] = @ + r.n], panic |-> acc.panic \/ r.panic])

\* for _, w := range logOut { w.Close() }
RECURSIVE CloseRange(_, _)
CloseRange(keys, acc) ==
    IF keys = {} THEN acc
    ELSE LET k == CHOOSE x \in keys : TRUE
             a == logOut[k]
             r == WriteClose(writes[a])
         IN  CloseRange(keys \ {k},
                        [n |-> [acc.n EXCEPT ![a] = @ + r.n], panic |-> acc.panic \/ r.panic])

NoCalls == [n |-> [a \in 1..Len(writes) |-> 0], panic |-> FALSE]

\* Rotate (log.go:218-222)
Rotate ==
    LET r == RotateRange(DOMAIN logOut, NoCalls)
    IN  /\ Step
        /\ last' = [NoLast EXCEPT !.op = "Rotate", !.twice = (last.op = "Rotate"),
                                  !.n = r.n, !.panicked = r.panic, !.pre = Pre]
        /\ UNCHANGED <<logLevel, logPath, logOut, writes, ljs, loggers, pools, entries,
                       redirect, lock, thr>>

\* (mutant) Close that also drops the sinks it closed from the registry
CloseAndForget ==
    /\ Step
    /\ logOut' = [k \in {x \in DOMAIN logOut : writes[logOut[x]].kind # "lj"} |-> logOut[k]]
    /\ last' = [NoLast EXCEPT !.op = "Close", !.twice = (last.op = "Close"),
                              !.n = CloseRange(DOMAIN logOut, NoCalls).n, !.pre = Pre]
    /\ UNCHANGED <<logLevel, logPath, writes, ljs, loggers, pools, entries, redirect, lock, thr>>

\* Close (log.go:211-215)
Close ==
    LET r == CloseRange(DOMAIN logOut, NoCalls)
    IN  /\ Step
        /\ last' = [NoLast EXCEPT !.op = "Close", !.twice = (last.op = "Close"),
                                  !.n = r.n, !.panicked = r.panic, !.pre = Pre]
        /\ UNCHANGED <<logLevel, logPath, logOut, writes, ljs, loggers, pools, entries,
                       redirect, lock, thr>>

\* The file name SetPath gives a relocated lumberjack.Logger (log.go:108)
Relocated(s, filename, oldPath) == Join(<<s, TrimPrefix(filename, oldPath)>>)

\* SetPath's loop body (log.go:106-115) on the Write at address a
\* acc = [writes, ljs, closed: per relocated Write, the Logger Close was called on]
SetPathWrite(a, s, acc) ==
    LET out == acc.writes[a]
    IN  IF out.kind # "lj" THEN acc
        ELSE LET lj == acc.ljs[out.ptr]
                 p  == FreshAddr(DOMAIN acc.ljs, 1)
             IN  [writes |-> [acc.writes EXCEPT ![a] = LjOut(p)],
                  ljs    |-> MapPut(acc.ljs, p,
                                    [Filename   |-> Relocated(s, lj.Filename, logPath),
                                     MaxSize    |-> lj.MaxSize,
                                     MaxBackups |-> lj.MaxBackups,
                                     MaxAge     |-> lj.MaxAge,
                                     Compress   |-> lj.Compress]),
                  closed |-> MapPut(acc.closed, a, out.ptr)]

RECURSIVE SetPathRange(_, _, _)
SetPathRange(keys, s, acc) ==
    IF keys = {} THEN acc
    ELSE LET k == CHOOSE x \in keys : TRUE
         IN  SetPathRange(keys \ {k}, s, SetPathWrite(logOut[k], s, acc))

\* The lumberjack.Loggers some Write of W holds; the others are garbage
Held(W) == {W[a].ptr : a \in {x \in 1..Len(W) : W[x].kind = "lj"}}

\* SetPath (log.go:104-118)
SetPath(s) ==
    LET r == SetPathRange(DOMAIN logOut, s, [writes |-> writes, ljs |-> ljs, closed |-> <<>>])
    IN  /\ Step
        /\ writes' = r.writes
        /\ ljs' = Without(r.ljs, (DOMAIN r.ljs) \ Held(r.writes))
        /\ logPath' = s
        /\ last' = [NoLast EXCEPT !.op = "SetPath", !.arg = s, !.closed = r.closed, !.pre = Pre]
        /\ UNCHANGED <<logLevel, logOut, loggers, pools, entries, redirect, lock, thr>>

\* SetOutput's treatment of one key (log.go:251-256, 257-262)
SetOutputKey(R, key, w) ==
    IF key \in DOMAIN R.logOut
    THEN [R EXCEPT !.writes[R.logOut[key]] = StreamOut(w)]
    ELSE [R EXCEPT !.logOut = MapPut(R.logOut, key, Len(R.writes) + 1),
                   !.writes = Append(R.writes, StreamOut(w))]

\* SetOutput (log.go:243-263), which takes the lock for its whole body
SetOutput(level, prefix, info, error) ==
    LET r == SetOutputKey(SetOutputKey(Reg, Key(level, "info", prefix), info),
                          Key(level, "error", prefix), error)
    IN  /\ Step
        /\ lock = 0
        /\ logOut' = r.logOut
        /\ writes' = r.writes
        /\ ljs' = Without(r.ljs, (DOMAIN r.ljs) \ Held(r.writes))
        /\ redirect' = MapPut(redirect, <<level, prefix>>, [info |-> info, error |-> error])
        /\ last' = [NoLast EXCEPT !.op = "SetOutput", !.pre = Pre]
        /\ UNCHANGED <<logLevel, logPath, loggers, pools, entries, lock, thr>>

\* A call of the package by its user
ApiCall ==
    \/ \E v \in GLevels : SetLevel(v)
    \/ \E level \in Levels, prefix \in Prefixes : New(level, prefix)
    \/ \E level \in Levels : V(level)
    \/ \E prefix \in Prefixes : NewWithPrefix(prefix)
    \/ \E l \in 1..Len(loggers), f \in Formatters : WithFormatter(l, f)
    \/ \E l \in 2..Len(loggers), a \in PrintArgs : Log_Print(l, a)
    \/ \E l \in 2..Len(loggers), c \in PrintfArgs : Log_Printf(l, c.format, c.a)
    \/ \E l \in 2..Len(loggers), a \in PrintArgs : Log_Error(l, a)
    \/ \E l \in 2..Len(loggers), c \in PrintfArgs : Log_Errorf(l, c.format, c.a)
    \/ \E c \in PrintfArgs : Infof(c.format, c.a)
    \/ \E a \in PrintArgs : Info(a)
    \/ \E c \in PrintfArgs : Errorf(c.format, c.a)
    \/ \E a \in PrintArgs : Error(a)
    \/ \E c \in PrintfArgs : Printf(c.format, c.a)
    \/ \E a \in PrintArgs : Print_(a)
    \/ \E level \in Levels, prefix \in Prefixes :
          SetOutput(level, prefix, "buf1", "buf2")
    \/ \E s \in Paths : SetPath(s)
    \/ Rotate
    \/ Close
    \/ \E a \in FatalArgs : Fatal(a)
    \/ \E c \in PrintfArgs : Fatalf(c.format, c.a)

Next == ApiCall \/ Panic

Spec == Init /\ [][Next]_vars

----------------------------------------------------------------------------
(* SpecArgs: one Print or Error on the default Log, over every argument list *)

InitArgs ==
    /\ logLevel = 0
    /\ logPath = DefaultLogPath
    /\ logOut = InitLog.R.logOut
    /\ writes = InitLog.R.writes
    /\ ljs = InitLog.R.ljs
    /\ loggers = <<InitLog.log>>
    /\ pools = << {} >>
    /\ entries = <<>>
    /\ redirect = <<>>
    /\ steps = 0
    /\ \E a \in ArgLists : last = [NoLast EXCEPT !.a = a]
    /\ lock = 0
    /\ thr = <<>>

\* log.Print(a...) and log.Error(a...) with the arguments drawn
PrintDrawn == last.op = "init" /\ Print_(last.a)
ErrorDrawn == last.op = "init" /\ Error(last.a)

NextArgs == PrintDrawn \/ ErrorDrawn

SpecArgs == InitArgs /\ [][NextArgs]_vars

----------------------------------------------------------------------------
(* SpecKeys: getOut over levels, categories and prefixes *)

\* getOut(level, name, prefix) (log.go:264-274), by one goroutine
Derive(level, name, prefix) ==
    LET r == getOut(Reg, logPath, level, name, prefix)
    IN  /\ Cardinality(DOMAIN logOut) < 2 + MaxDerived
        /\ logOut' = r.R.logOut
        /\ writes' = r.R.writes
        /\ ljs' = r.R.ljs
        /\ last' = [NoLast EXCEPT !.op = "getOut", !.ret = r.w]
        /\ UNCHANGED <<logLevel, logPath, loggers, pools, entries, redirect, steps,
                       lock, thr>>

NextKeys == \E level \in KeyLevels, name \in Names, prefix \in Prefixes : Derive(level, name, prefix)

SpecKeys == Init /\ [][NextKeys]_vars

----------------------------------------------------------------------------
(* SpecConc: goroutines calling New and Print/Printf, one statement at a time *)

Threads == {1, 2}

\* A goroutine's locals: where it is (pc), the call it is in and its arguments,
\* getOut's results, the Log it called (p, the receiver's copy), the Entry it got,
\* what Formatter.Format was given (seen) and returned (err), for a range over
\* logOut the keys it has produced (visited) and those it still must (todo), and
\* the steps of the log call it is in that it has taken (did)
Idle ==
    [pc |-> "idle", op |-> "", level |-> 0, prefix |-> <<>>, name |-> "",
     info |-> 0, err |-> 0, log |-> 0, p |-> <<>>, format |-> <<>>, a |-> <<>>,
     e |-> 0, reused |-> FALSE, t |-> 0, seen |-> <<>>, ferr |-> "",
     arg |-> <<>>, todo |-> {}, visited |-> {}, did |-> <<>>]

\* The Go runtime throws on a map access it finds concurrent with a map write
Alive == \A t \in Threads : thr[t].pc # "fatal"
AtRest(t) == thr[t].pc \in {"idle", "done"}
Begin == Alive /\ steps < MaxCalls /\ steps' = steps + 1

\* go New(level, prefix)  (log.go:131-140): up to the first getOut
StartNew(t, level, prefix) ==
    /\ Begin /\ AtRest(t)
    /\ thr' = [thr EXCEPT ![t] = [Idle EXCEPT !.pc = "read", !.op = "New", !.level = level,
                                              !.prefix = prefix, !.name = "info"]]
    /\ UNCHANGED <<logLevel, logPath, logOut, writes, ljs, loggers, pools, entries,
                   redirect, last, lock>>

\* The level of the getOut a goroutine is in: New asks for (level, "info") and (0, "error")
KeyLevel(t) == IF thr[t].name = "info" THEN thr[t].level ELSE 0
ThrKey(t) == Key(KeyLevel(t), thr[t].name, thr[t].prefix)

\* getOut returns w (log.go:267, 272): on to the second getOut, or to New's return
Returned(t, w) ==
    IF thr[t].name = "info"
    THEN [thr[t] EXCEPT !.info = w, !.name = "error", !.pc = "read"]
    ELSE [thr[t] EXCEPT !.err = w, !.pc = "build"]

\* getOut's lookup, with the lock not held (log.go:266-268)
GetOutRead(t) ==
    /\ Alive /\ thr[t].pc = "read"
    /\ thr' = [thr EXCEPT ![t] = IF ThrKey(t) \in DOMAIN logOut
                                 THEN Returned(t, logOut[ThrKey(t)])
                                 ELSE [thr[t] EXCEPT !.pc = "lock"]]
    /\ UNCHANGED <<logLevel, logPath, logOut, writes, ljs, loggers, pools, entries,
                   redirect, steps, last, lock>>

\* A goroutine at an assignment to the map logOut: getOut's, or SetOutput's for a
\* key that is not there
MapWriter(u) ==
    \/ thr[u].pc = "insert"
    \/ /\ thr[u].pc = "setoutput"
       /\ \E name \in {"info", "error"} :
              Key(thr[u].level, name, thr[u].prefix) \notin DOMAIN logOut

\* The same lookup while another goroutine is at its map assignment: a data race,
\* which the runtime may answer with "fatal error: concurrent map read and map write"
GetOutReadRace(t) ==
    /\ Alive /\ thr[t].pc = "read"
    /\ \E u \in Threads \ {t} : MapWriter(u)
    /\ thr' = [thr EXCEPT ![t].pc = "fatal"]
    /\ UNCHANGED <<logLevel, logPath, logOut, writes, ljs, loggers, pools, entries,
                   redirect, steps, last, lock>>

\* lock.Lock() (log.go:269)
GetOutLock(t) ==
    /\ Alive /\ thr[t].pc = "lock" /\ lock = 0
    /\ lock' = t
    /\ thr' = [thr EXCEPT ![t].pc = "insert"]
    /\ UNCHANGED <<logLevel, logPath, logOut, writes, ljs, loggers, pools, entries,
                   redirect, steps, last>>

\* logOut[key] = newOut(level, name, prefix); return logOut[key], and the deferred
\* lock.Unlock() (log.go:270-272)
GetOutInsert(t) ==
    LET r == getOutInsert(Reg, logPath, KeyLevel(t), thr[t].name, thr[t].prefix)
    IN  /\ Alive /\ thr[t].pc = "insert"
        /\ logOut' = r.R.logOut
        /\ writes' = r.R.writes
        /\ ljs' = r.R.ljs
        /\ lock' = 0
        /\ thr' = [thr EXCEPT ![t] = Returned(t, r.w)]
        /\ UNCHANGED <<logLevel, logPath, loggers, pools, entries, redirect, steps, last>>

\* return p (log.go:132-138, 142): the Log and its pool
NewBuild(t) ==
    /\ Alive /\ thr[t].pc = "build"
    /\ loggers' = Append(loggers, [info |-> thr[t].info, err |-> thr[t].err,
                                   pool |-> Len(loggers) + 1, Prefix |-> thr[t].prefix,
                                   Level |-> thr[t].level, Formatter |-> "TextFormatter"])
    /\ pools' = Append(pools, {})
    /\ thr' = [thr EXCEPT ![t].log = Len(loggers) + 1, ![t].pc = "done"]
    /\ UNCHANGED <<logLevel, logPath, logOut, writes, ljs, entries, redirect, steps,
                   last, lock>>

\* go l.Print(a...) or go l.Printf(format, a...): the value receiver copies the Log
StartCall(t, l, op, format, a) ==
    /\ Begin /\ AtRest(t)
    /\ thr' = [thr EXCEPT ![t] = [Idle EXCEPT !.pc = "gate", !.op = op, !.log = l,
                                              !.p = loggers[l], !.format = format, !.a = a]]
    /\ UNCHANGED <<logLevel, logPath, logOut, writes, ljs, loggers, pools, entries,
                   redirect, last, lock>>

\* if logLevel >= p.Level (log.go:149, 163)
CallGate(t) ==
    /\ Alive /\ thr[t].pc = "gate"
    /\ thr' = [thr EXCEPT ![t].pc = IF Gate(thr[t].p.Level) THEN "get" ELSE "done"]
    /\ UNCHANGED <<logLevel, logPath, logOut, writes, ljs, loggers, pools, entries,
                   redirect, steps, last, lock>>

\* entry := p.pool.Get().(*Entry) (log.go:150, 164)
CallGet(t) ==
    /\ Alive /\ thr[t].pc = "get"
    /\ \E c \in {0} \cup pools[thr[t].p.pool] :
           LET g == PoolGet(pools[thr[t].p.pool], entries, c)
           IN  /\ pools' = [pools EXCEPT ![thr[t].p.pool] = g.pool]
               /\ entries' = g.entries
               /\ thr' = [thr EXCEPT ![t].e = g.e, ![t].reused = (c # 0), ![t].pc = "time",
                                  ![t].did = Append(@, "get")]
    /\ UNCHANGED <<logLevel, logPath, logOut, writes, ljs, loggers, redirect, steps,
                   last, lock>>

\* entry.Time = time.Now().Format(time.RFC3339) (log.go:151, 165)
CallTime(t) ==
    /\ Alive /\ thr[t].pc = "time"
    /\ entries' = [entries EXCEPT ![thr[t].e] = StampTime(@, steps)]
    /\ thr' = [thr EXCEPT ![t].t = steps, ![t].pc = "msg", ![t].did = Append(@, "time")]
    /\ UNCHANGED <<logLevel, logPath, logOut, writes, ljs, loggers, pools, redirect,
                   steps, last, lock>>

\* The Message a goroutine's call stands for
ThrMessage(t) ==
    IF thr[t].op = "Print" THEN OutputMessage(thr[t].a)
    ELSE OutputfMessage(thr[t].format, thr[t].a)

\* (mutant) a call that puts its Entry back without having called Format
CallMessageThenPut(t) ==
    /\ Alive /\ thr[t].pc = "msg"
    /\ entries' = [entries EXCEPT ![thr[t].e] = SetMessage(@, ThrMessage(t))]
    /\ thr' = [thr EXCEPT ![t].pc = "put", ![t].did = Append(@, "msg")]
    /\ UNCHANGED <<logLevel, logPath, logOut, writes, ljs, loggers, pools, redirect,
                   steps, last, lock>>

\* entry.Message = ... (log.go:152, 167-184)
CallMessage(t) ==
    /\ Alive /\ thr[t].pc = "msg"
    /\ entries' = [entries EXCEPT ![thr[t].e] = SetMessage(@, ThrMessage(t))]
    /\ thr' = [thr EXCEPT ![t].pc = "format", ![t].did = Append(@, "msg")]
    /\ UNCHANGED <<logLevel, logPath, logOut, writes, ljs, loggers, pools, redirect,
                   steps, last, lock>>

\* err := p.Formatter.Format(entry, w) and the report of err (log.go:154-157, 186-189)
CallFormat(t) ==
    /\ Alive /\ thr[t].pc = "format"
    /\ \E wres \in WriteResults :
           thr' = [thr EXCEPT ![t].seen = entries[thr[t].e],
                              ![t].ferr = Format(thr[t].p.Formatter, entries[thr[t].e],
                                                 thr[t].p.info, wres).err,
                              ![t].did = Append(@, "format"),
                              ![t].pc = "put"]
    /\ UNCHANGED <<logLevel, logPath, logOut, writes, ljs, loggers, pools, entries,
                   redirect, steps, last, lock>>

\* p.pool.Put(entry) (log.go:159, 190)
CallPut(t) ==
    /\ Alive /\ thr[t].pc = "put"
    /\ pools' = [pools EXCEPT ![thr[t].p.pool] = PoolPut(@, thr[t].e)]
    /\ entries' = [entries EXCEPT ![thr[t].e] = Stale]
    /\ thr' = [thr EXCEPT ![t].pc = "done", ![t].did = Append(@, "put")]
    /\ UNCHANGED <<logLevel, logPath, logOut, writes, ljs, loggers, redirect, steps,
                   last, lock>>

InitConc ==
    /\ logLevel = 0
    /\ logPath = DefaultLogPath
    /\ logOut = InitLog.R.logOut
    /\ writes = InitLog.R.writes
    /\ ljs = InitLog.R.ljs
    /\ loggers = <<InitLog.log>>
    /\ pools = << {} >>
    /\ entries = <<>>
    /\ redirect = <<>>
    /\ steps = 0
    /\ last = NoLast
    /\ lock = 0
    /\ thr = [t \in Threads |-> Idle]

NextConc ==
    \E t \in Threads :
        \/ \E level \in ConcLevels, prefix \in ConcPrefixes : StartNew(t, level, prefix)
        \/ GetOutRead(t)
        \/ GetOutReadRace(t)
        \/ GetOutLock(t)
        \/ GetOutInsert(t)
        \/ NewBuild(t)
        \/ \E l \in 1..Len(loggers), a \in ConcPrintArgs : StartCall(t, l, "Print", <<>>, a)
        \/ \E l \in 1..Len(loggers), f \in PrintfArgs : StartCall(t, l, "Printf", f.format, f.a)
        \/ CallGate(t)
        \/ CallGet(t)
        \/ CallTime(t)
        \/ CallMessage(t)
        \/ CallFormat(t)
        \/ CallPut(t)

SpecConc == InitConc /\ [][NextConc]_vars

----------------------------------------------------------------------------
(* SpecReg: goroutines calling New, SetOutput, Rotate, Close and SetPath, one *)
(* statement, or one turn of a range loop, at a time                          *)

\* go Rotate(), go Close(), go SetPath(s): the range over logOut begins
\* (log.go:105, 212, 219), with no lock taken
StartBulk(t, op, s) ==
    /\ Begin /\ AtRest(t)
    /\ thr' = [thr EXCEPT ![t] = [Idle EXCEPT !.pc = "range", !.op = op, !.arg = s,
                                              !.todo = DOMAIN logOut]]
    /\ UNCHANGED <<logLevel, logPath, logOut, writes, ljs, loggers, pools, entries,
                   redirect, last, lock>>

\* The keys the range may produce next: one it owes, or one that was added to the
\* map since the range began, which Go may produce or skip
Produced(t) ==
    (IF thr[t].todo = {} THEN {} ELSE {CHOOSE k \in thr[t].todo : TRUE})
        \cup (DOMAIN logOut \ (thr[t].todo \cup thr[t].visited))

\* One turn of the loop: w.Rotate() (log.go:220), w.Close() (log.go:213), or
\* SetPath's replacement of w.out (log.go:106-115)
BulkVisit(t) ==
    /\ Alive /\ thr[t].pc = "range"
    /\ \E k \in Produced(t) :
           LET r == IF thr[t].op = "SetPath"
                    THEN SetPathWrite(logOut[k], thr[t].arg,
                                      [writes |-> writes, ljs |-> ljs, closed |-> <<>>])
                    ELSE [writes |-> writes, ljs |-> ljs]
           IN  /\ writes' = r.writes
               /\ ljs' = Without(r.ljs, (DOMAIN r.ljs) \ Held(r.writes))
               /\ thr' = [thr EXCEPT ![t].todo = @ \ {k}, ![t].visited = @ \cup {k}]
    /\ UNCHANGED <<logLevel, logPath, logOut, loggers, pools, entries, redirect, steps,
                   last, lock>>

\* The loop ends, and SetPath assigns logPath = s (log.go:117)
BulkDone(t) ==
    /\ Alive /\ thr[t].pc = "range" /\ thr[t].todo = {}
    /\ logPath' = IF thr[t].op = "SetPath" THEN thr[t].arg ELSE logPath
    /\ thr' = [thr EXCEPT ![t].pc = "done"]
    /\ UNCHANGED <<logLevel, logOut, writes, ljs, loggers, pools, entries, redirect,
                   steps, last, lock>>

\* A turn of the range while another goroutine is at its map assignment: a data
\* race, "fatal error: concurrent map iteration and map write"
BulkRace(t) ==
    /\ Alive /\ thr[t].pc = "range"
    /\ \E u \in Threads \ {t} : MapWriter(u)
    /\ thr' = [thr EXCEPT ![t].pc = "fatal"]
    /\ UNCHANGED <<logLevel, logPath, logOut, writes, ljs, loggers, pools, entries,
                   redirect, steps, last, lock>>

\* go SetOutput(level, prefix, info, error)
StartSetOutput(t, level, prefix) ==
    /\ Begin /\ AtRest(t)
    /\ thr' = [thr EXCEPT ![t] = [Idle EXCEPT !.pc = "solock", !.op = "SetOutput",
                                              !.level = level, !.prefix = prefix]]
    /\ UNCHANGED <<logLevel, logPath, logOut, writes, ljs, loggers, pools, entries,
                   redirect, last, lock>>

\* lock.Lock() (log.go:244)
SetOutputLock(t) ==
    /\ Alive /\ thr[t].pc = "solock" /\ lock = 0
    /\ lock' = t
    /\ thr' = [thr EXCEPT ![t].pc = "setoutput"]
    /\ UNCHANGED <<logLevel, logPath, logOut, writes, ljs, loggers, pools, entries,
                   redirect, steps, last>>

\* SetOutput's body and the deferred lock.Unlock() (log.go:245-263)
SetOutputBody(t) ==
    LET r == SetOutputKey(SetOutputKey(Reg, Key(thr[t].level, "info", thr[t].prefix), "buf1"),
                          Key(thr[t].level, "error", thr[t].prefix), "buf2")
    IN  /\ Alive /\ thr[t].pc = "setoutput"
        /\ logOut' = r.logOut
        /\ writes' = r.writes
        /\ ljs' = Without(r.ljs, (DOMAIN r.ljs) \ Held(r.writes))
        /\ redirect' = MapPut(redirect, <<thr[t].level, thr[t].prefix>>,
                              [info |-> "buf1", error |-> "buf2"])
        /\ lock' = 0
        /\ thr' = [thr EXCEPT ![t].pc = "done"]
        /\ UNCHANGED <<logLevel, logPath, loggers, pools, entries, steps, last>>

NextReg ==
    \E t \in Threads :
        \/ \E level \in ConcLevels, prefix \in ConcPrefixes : StartNew(t, level, prefix)
        \/ GetOutRead(t)
        \/ GetOutReadRace(t)
        \/ GetOutLock(t)
        \/ GetOutInsert(t)
        \/ NewBuild(t)
        \/ StartBulk(t, "Rotate", <<>>)
        \/ StartBulk(t, "Close", <<>>)
        \/ \E s \in ConcPaths : StartBulk(t, "SetPath", s)
        \/ BulkVisit(t)
        \/ BulkDone(t)
        \/ BulkRace(t)
        \/ \E level \in ConcLevels, prefix \in ConcPrefixes : StartSetOutput(t, level, prefix)
        \/ SetOutputLock(t)
        \/ SetOutputBody(t)

SpecReg == InitConc /\ [][NextReg]_vars

----------------------------------------------------------------------------
(* Properties of Spec *)

IsCall     == last.op \in {"Print", "Printf", "Error", "Errorf"}
IsInfoCall == last.op \in {"Print", "Printf"}
IsErrCall  == last.op \in {"Error", "Errorf"}
\* The Log of the last call, and the Message its arguments stand for
LastLog == loggers[last.logger]
LastMessage ==
    IF last.op \in {"Print", "Error"} THEN OutputMessage(last.a)
    ELSE OutputfMessage(last.format, last.a)
\* The last call was emitted: Formatter.Format was called with the record and sink w
EmittedTo(w) == Len(last.fmts) = 1 /\ last.fmts[1].sink = w
\* The writes of the last call: nothing when json refused the Message or the
\* writer took nothing, else one write to w, of the Formatter's bytes for the Entry,
\* or of their beginning when the writer stopped short
WroteTo(w) ==
    LET b == FormatterBytes(LastLog.Formatter, last.fmts[1].entry).b
        e == last.fmts[1].err
    IN  /\ \A i \in 1..Len(last.wr) : last.wr[i].sink = w /\ last.wr[i].out = writes[w]
        /\ Len(last.wr) = (IF e \in {"", "short write"} THEN 1 ELSE 0)
        /\ e = "" => last.wr[1].rec = b
        /\ e = "short write" => last.wr[1].rec = SubSeq(b, 1, 1)

\* C1: a Print or Printf call on a Logger L is emitted (Format is called with a
\* record and L's info sink, whose bytes reach that sink and no other) if and only
\* if the global threshold is at least L.Level when the call is made, whatever
\* SetLevel made of the threshold since L was built; a gated call writes nothing.
C1_PrintGate ==
    IsInfoCall =>
        IF logLevel >= LastLog.Level
        THEN EmittedTo(LastLog.info) /\ WroteTo(LastLog.info)
        ELSE last.fmts = <<>> /\ last.wr = <<>>

\* C1's case: the threshold was raised to 2 by SetLevel, and a Log of level 2 wrote
C1_Witness ==
    /\ IsInfoCall /\ LastLog.Level = 2 /\ logLevel = 2 /\ Len(last.wr) = 1
    /\ last.fmts[1].err = ""

\* C2 (as claimed): an Error or Errorf call on a Logger L is emitted to L's error
\* sink if and only if the global threshold is >= 0, whatever L.Level is.
C2_ErrorGateZero ==
    IsErrCall =>
        IF logLevel >= 0
        THEN EmittedTo(LastLog.err) /\ WroteTo(LastLog.err)
        ELSE last.fmts = <<>> /\ last.wr = <<>>

\* C4 (as claimed): once SetOutput(level, prefix, info, error) was called, whatever
\* a Logger of that level and prefix writes on Print/Printf reaches info, and
\* whatever it writes on Error/Errorf reaches error.
C4_SetOutputRoutes ==
    (IsCall /\ <<LastLog.Level, LastLog.Prefix>> \in DOMAIN redirect) =>
        LET r == redirect[<<LastLog.Level, LastLog.Prefix>>]
        IN  \A i \in 1..Len(last.wr) :
                last.wr[i].out = StreamOut(IF IsInfoCall THEN r.info ELSE r.error)

\* C5: with the sinks of (0, "") redirected by SetOutput, a call on the default
\* Logger that passes the gate calls Format exactly once, on an Entry holding that
\* call's timestamp and message and with the info buffer as target; the bytes of
\* that one record are appended to the info buffer and nothing is written anywhere
\* else (no record at all when encoding/json refuses the message).
C5_DefaultToBuffer ==
    (IsInfoCall /\ last.logger = 1 /\ <<0, <<>>>> \in DOMAIN redirect
        /\ logLevel >= LastLog.Level) =>
        LET buf == StreamOut(redirect[<<0, <<>>>>].info)
        IN  /\ Len(last.fmts) = 1
            /\ last.fmts[1].entry = [Time |-> RFC3339(last.t), Message |-> LastMessage]
            /\ writes[last.fmts[1].sink] = buf
            /\ \A i \in 1..Len(last.wr) : last.wr[i].out = buf
            /\ Len(last.wr) = (IF Marshal(LastMessage).ok THEN 1 ELSE 0)
            /\ Marshal(LastMessage).ok =>
                   last.wr[1].rec =
                       FormatterBytes(LastLog.Formatter,
                                      [Time |-> RFC3339(last.t), Message |-> LastMessage]).b
            /\ last.stderr = (IF Marshal(LastMessage).ok THEN 0 ELSE 1)

\* C5's case: the default Logger, redirected, wrote a record from an Entry it reused
C5_Witness ==
    /\ IsInfoCall /\ last.logger = 1 /\ <<0, <<>>>> \in DOMAIN redirect
    /\ Len(last.wr) = 1 /\ last.wr[1].out = StreamOut("buf1")
    /\ last.t > 2
\* The elements of a path, and the path of f relative to the directory base
PathElems(p) == SelectSeq(Split(Clean(p), "/"), LAMBDA e : e # <<>> /\ e # <<".">>)
RelTo(base, f) ==
    LET b == PathElems(base)
        e == PathElems(f)
    IN  JoinWith(IF HasPrefix(e, b) THEN SubSeq(e, Len(b) + 1, Len(e)) ELSE e, "/")

\* C6 (as claimed): after SetPath(newPath) every Write that held a lumberjack.Logger
\* holds one whose Filename is newPath joined with the old Filename taken relative
\* to the previous base path, with the same rotation settings, and Close was called
\* on the Logger it held; a Write holding a stream is as it was; the registry has
\* the keys it had, bound to the Writes they were bound to.
C6_SetPathRelocates ==
    last.op = "SetPath" =>
        /\ logOut = last.pre.logOut
        /\ logPath = last.arg
        /\ Len(writes) = Len(last.pre.writes)
        /\ \A a \in 1..Len(writes) :
               LET old == last.pre.writes[a]
               IN  IF old.kind # "lj" THEN writes[a] = old
                   ELSE /\ writes[a].kind = "lj"
                        /\ ljs[writes[a].ptr] =
                               [last.pre.ljs[old.ptr] EXCEPT
                                   !.Filename =
                                       Join(<<last.arg,
                                              RelTo(last.pre.logPath,
                                                    last.pre.ljs[old.ptr].Filename)>>)]
                        /\ a \in DOMAIN last.closed
                        /\ last.closed[a] = old.ptr

\* The Writes of the registry
Registered == {logOut[k] : k \in DOMAIN logOut}

\* C7: Rotate calls lumberjack's Rotate exactly once on every registered Write that
\* holds a lumberjack.Logger and not at all on one that holds a plain stream, does
\* not panic, and leaves every Write with the writer it held.
C7_RotateSkipsStreams ==
    last.op = "Rotate" =>
        /\ ~last.panicked
        /\ DOMAIN last.n = 1..Len(writes)
        /\ \A a \in Registered : last.n[a] = (IF writes[a].kind = "lj" THEN 1 ELSE 0)
        /\ logOut = last.pre.logOut
        /\ writes = last.pre.writes
        /\ ljs = last.pre.ljs

\* C7's case: Rotate ran over a registry holding both a stream and a rotatable file
C7_Witness ==
    /\ last.op = "Rotate"
    /\ \E a \in Registered : writes[a].kind = "stream" /\ last.n[a] = 0
    /\ \E a \in Registered : writes[a].kind = "lj" /\ last.n[a] = 1

\* C8: the second of two consecutive calls of Rotate, or of Close, does not panic
\* and leaves the registry with the keys, the Writes and the writers it had after
\* the first; a log call that follows Close and passes the gate still finds its
\* Write registered and hands its record to the writer that Write holds.
C8_RotateCloseIdempotent ==
    /\ (last.op \in {"Rotate", "Close"} /\ last.twice) =>
           /\ ~last.panicked
           /\ logOut = last.pre.logOut
           /\ writes = last.pre.writes
           /\ ljs = last.pre.ljs
    /\ (last.op = "Close") =>
           /\ logOut = last.pre.logOut /\ writes = last.pre.writes /\ ljs = last.pre.ljs
           /\ \A a \in Registered : last.n[a] = (IF writes[a].kind = "lj" THEN 1 ELSE 0)
    /\ (IsCall /\ last.afterClose /\ last.passed) =>
           LET w == IF IsInfoCall THEN LastLog.info ELSE LastLog.err
           IN  w \in Registered /\ EmittedTo(w) /\ WroteTo(w)

\* C8's case: Close was called twice in a row on a registry with a rotatable file
C8_Witness ==
    /\ last.op = "Close" /\ last.twice
    /\ \E a \in Registered : writes[a].kind = "lj" /\ last.n[a] = 1

\* C8's other case: a record written to a rotatable file right after Close
C8_UsableAfterClose ==
    /\ IsCall /\ last.afterClose /\ Len(last.wr) = 1 /\ last.wr[1].out.kind = "lj"
    /\ last.fmts[1].err = ""

----------------------------------------------------------------------------
(* Properties of SpecConc *)

\* The goroutines back from New
BackFromNew == {t \in Threads : thr[t].op = "New" /\ thr[t].pc = "done"}
\* The goroutines holding an Entry: past the pool's Get, not past its Put
Holding == {t \in Threads : thr[t].pc \in {"time", "msg", "format", "put"}}
\* The goroutines whose call has passed Formatter.Format
Formatted == {t \in Threads : thr[t].op \in {"Print", "Printf"} /\ thr[t].seen # <<>>}

\* C3 (as claimed): however the goroutines resolving a key interleave, newOut builds
\* one sink per key, the registry stays bound to it, and every caller of New gets
\* the sinks the registry holds for its keys.
C3_OneSinkPerKey ==
    /\ Len(writes) = Cardinality(DOMAIN logOut)
    /\ \A t \in BackFromNew :
           /\ thr[t].info = logOut[Key(thr[t].level, "info", thr[t].prefix)]
           /\ thr[t].err = logOut[Key(0, "error", thr[t].prefix)]
    /\ \A t, u \in BackFromNew :
           (thr[t].level = thr[u].level /\ thr[t].prefix = thr[u].prefix) =>
               thr[t].info = thr[u].info /\ thr[t].err = thr[u].err

\* C9: no Entry is held by two calls at once: two goroutines between Get and Put
\* hold different Entries, and an Entry a goroutine holds is in no pool.
C9_EntryHeldOnce ==
    /\ \A t, u \in Holding : t # u => thr[t].e # thr[u].e
    /\ \A t \in Holding : \A i \in 1..Len(pools) : thr[t].e \notin pools[i]

\* C9's case: two calls on one Log hold Entries at once, one of them a reused one
C9_Witness ==
    /\ Holding = Threads
    /\ thr[1].p.pool = thr[2].p.pool
    /\ \E t \in Threads : thr[t].reused

\* C10: the Entry Formatter.Format is given holds the Time and the Message that the
\* call formatting it wrote, never what the pool kept from an earlier call.
C10_EntryOverwritten ==
    \A t \in Formatted :
        /\ thr[t].seen = [Time |-> RFC3339(thr[t].t), Message |-> ThrMessage(t)]
        /\ thr[t].seen.Time # Stale.Time
        /\ thr[t].seen.Message # Stale.Message

\* C10's case: a Printf formatted an Entry that a Print had put back, while the
\* other goroutine was inside a call of its own
C10_Witness ==
    \E t \in Formatted :
        /\ thr[t].reused /\ thr[t].op = "Printf"
        /\ \E u \in Holding \ {t} : thr[u].op = "Print"

----------------------------------------------------------------------------
(* Properties of Spec, continued *)

----------------------------------------------------------------------------
(* Properties of SpecArgs *)

\* What the claim has an argument converted to
Converted(v) ==
    IF v.t \in {"error", "stringer"} THEN [t |-> "string", s |-> v.s, elems |-> <<>>] ELSE v

\* C12: Print and Error convert each argument on its own and in order (an error to
\* its Error() text, a Stringer to its String() text, anything else kept); with
\* exactly one argument the Message is that converted value, with any other number
\* it is the slice of the converted values, as long as the arguments and in their order.
C12_ArgsNormalized ==
    (last.op \in {"Print", "Error"} /\ last.fmts # <<>>) =>
        LET m == last.fmts[1].entry.Message
        IN  IF Len(last.a) = 1 THEN m = Converted(last.a[1])
            ELSE /\ m.t = "list"
                 /\ Len(m.elems) = Len(last.a)
                 /\ \A i \in 1..Len(last.a) : m.elems[i] = Converted(last.a[i])

\* C12's case: an error and a Stringer, in this order, written as a slice of two strings
C12_Witness ==
    /\ last.op = "Print" /\ Len(last.a) = 2 /\ Len(last.wr) = 1
    /\ last.a[1].t = "error" /\ last.a[2].t = "stringer"
    /\ last.fmts[1].entry.Message.elems = <<StrV(<<"Error">>), StrV(<<"str">>)>>

----------------------------------------------------------------------------
(* Properties of Spec: Loggers derived from Loggers *)

\* Log.V and Log.NewWithPrefix return V(level) and NewWithPrefix(prefix) whatever
\* their receiver is (log.go:119-125): the Log that V or NewWithPrefix has just
\* built is what L.V or L.NewWithPrefix returns for every Log L built before
Older == 1..(last.logger - 1)

\* C13 (as claimed): for every Logger L, a Print or Printf on L.V(0) is gated as the
\* same call on L is, and writes the same record, from the same Formatter, to the
\* same sink.
C13_VZeroSameAsReceiver ==
    (last.op = "V" /\ loggers[last.logger].Level = 0) =>
        \A l \in Older, wres \in WriteResults :
            LET d == last.logger
            IN  /\ \A a \in PrintArgs :
                       LET x == Output(l, loggers[l].info, a, steps + 1, 0, wres)
                           y == Output(d, loggers[d].info, a, steps + 1, 0, wres)
                       IN  x.passed = y.passed /\ x.wr = y.wr
                /\ \A c \in PrintfArgs :
                       LET x == Outputf(l, loggers[l].info, c.format, c.a, steps + 1, 0, wres)
                           y == Outputf(d, loggers[d].info, c.format, c.a, steps + 1, 0, wres)
                       IN  x.passed = y.passed /\ x.wr = y.wr
                /\ loggers[l].Formatter = loggers[d].Formatter
                /\ loggers[l].info = loggers[d].info

\* C14: L.WithFormatter(f) returns L and makes f the Formatter of L, leaving L's
\* Level, Prefix and sinks, every other Log, the registry, the sinks and the
\* threshold as they were; no other call changes the Formatter of a Log, a Log
\* built later carries the TextFormatter, and an emitted call on a Log writes the
\* bytes that the Formatter the Log has at the call makes of the Entry.
C14_WithFormatterFrame ==
    [][ /\ last'.op = "WithFormatter" =>
               /\ last'.ret = last'.logger
               /\ loggers' = [loggers EXCEPT ![last'.logger].Formatter = last'.arg]
               /\ logOut' = logOut /\ writes' = writes /\ ljs' = ljs
               /\ logLevel' = logLevel /\ logPath' = logPath
        /\ last'.op # "WithFormatter" =>
               /\ \A l \in 1..Len(loggers) : loggers'[l].Formatter = loggers[l].Formatter
               /\ \A l \in (Len(loggers) + 1)..Len(loggers') :
                      loggers'[l].Formatter = "TextFormatter"
        /\ last'.op \in {"Print", "Printf", "Error", "Errorf", "Fatal", "Fatalf"} =>
               \A i \in 1..Len(last'.wr) :
                   LET b == FormatterBytes(loggers[last'.logger].Formatter,
                                           last'.fmts[1].entry).b
                   IN  last'.wr[i].rec =
                           (IF last'.fmts[1].err = "" THEN b ELSE SubSeq(b, 1, 1))
      ]_vars

\* C14's case: a Log given the JSONFormatter wrote a JSON record, after another Log
\* had been built, which has the TextFormatter
C14_Witness ==
    /\ IsCall /\ LastLog.Formatter = "JSONFormatter" /\ Len(last.wr) = 1
    /\ last.fmts[1].err = ""
    /\ last.wr[1].rec = JSONFormatterBytes(last.fmts[1].entry).b
    /\ \E l \in (last.logger + 1)..Len(loggers) : loggers[l].Formatter = "TextFormatter"

----------------------------------------------------------------------------
(* Properties of SpecReg *)

\* A goroutine at an assignment to logOut or to a Write of it, or inside a range
\* over logOut
InRegistry(t) == thr[t].pc \in {"insert", "setoutput", "range"}

\* C15 (as claimed): a goroutine that inserts into the registry, replaces a sink's
\* writer or ranges over the registry (Rotate, Close, SetPath) holds the lock while
\* it does, so no two goroutines are at it at once.
C15_RegistryOpsLocked ==
    /\ \A t \in Threads : InRegistry(t) => lock = t
    /\ \A t, u \in Threads : (InRegistry(t) /\ InRegistry(u)) => t = u

\* C16 (as claimed): in every interleaving each Log's info and error sinks are the
\* Writes the registry maps for (Level, info, Prefix) and (0, error, Prefix), so
\* two Logs of one level and prefix share their sinks, and the keys the registry
\* had at the start are still there.
C16_LoggersHoldRegistered ==
    /\ DOMAIN InitLog.R.logOut \subseteq DOMAIN logOut
    /\ \A l \in 1..Len(loggers) :
           LET ki == Key(loggers[l].Level, "info", loggers[l].Prefix)
               ke == Key(0, "error", loggers[l].Prefix)
           IN  /\ ki \in DOMAIN logOut /\ loggers[l].info = logOut[ki]
               /\ ke \in DOMAIN logOut /\ loggers[l].err = logOut[ke]
    /\ \A l, m \in 1..Len(loggers) :
           (loggers[l].Level = loggers[m].Level /\ loggers[l].Prefix = loggers[m].Prefix) =>
               loggers[l].info = loggers[m].info /\ loggers[l].err = loggers[m].err

----------------------------------------------------------------------------
(* Properties of Spec: calls that fail, calls that are gated out *)

\* C17: when Format returns an error in an emitted call (json refuses the Message,
\* the writer takes nothing, or takes part of the record), the error is reported
\* once, to os.Stderr; no sink gets anything but what the writer took of the
\* record itself; the Entry is back in the Log's pool; the registry, the writers
\* and the Logs are as before; and the call returns, so that its caller can go on.
C17_FormatErrorReported ==
    (IsCall /\ last.fmts # <<>> /\ last.fmts[1].err # "") =>
        LET w == IF IsInfoCall THEN LastLog.info ELSE LastLog.err
        IN  /\ last.stderr = 1
            /\ EmittedTo(w) /\ WroteTo(w)
            /\ last.fmts[1].err \in {"json", "write"} => last.wr = <<>>
            /\ last.e \in pools[LastLog.pool]
            /\ logOut = last.pre.logOut /\ writes = last.pre.writes /\ ljs = last.pre.ljs
            /\ loggers = last.pre.loggers
            /\ ~last.panicked
            /\ steps < MaxSteps => ENABLED ApiCall

\* C17's case: a Print whose record the file took only in part, reported once,
\* made with an Entry that an earlier call had put back
C17_Witness ==
    /\ IsCall /\ last.fmts # <<>> /\ last.fmts[1].err = "short write"
    /\ last.stderr = 1 /\ Len(last.wr) = 1 /\ last.t > 1

\* C18: a call that the gate stops (threshold below the Log's Level) takes no Entry
\* from the pool, calls Format on nothing, writes to no sink, reports nothing, and
\* leaves the pools, the Entries, the registry, the writers and the Logs as they were.
C18_GatedOutNoEffect ==
    [][ (last'.op \in {"Print", "Printf", "Error", "Errorf"}
            /\ logLevel < loggers[last'.logger].Level) =>
            /\ ~last'.passed /\ last'.e = 0
            /\ last'.fmts = <<>> /\ last'.wr = <<>> /\ last'.stderr = 0
            /\ UNCHANGED <<pools, entries, logOut, writes, ljs, loggers, logLevel, logPath,
                           redirect>>
      ]_vars

\* C18's case: a Log of level 2 gated out at threshold 0, after the default Log emitted
C18_Witness ==
    /\ IsCall /\ ~last.passed /\ LastLog.Level = 2 /\ logLevel = 0
    /\ pools[1] # {}

----------------------------------------------------------------------------
(* Properties of SpecConc: the steps of one call *)

CallOrder == <<"get", "time", "msg", "format", "put">>
\* How many steps of CallOrder a goroutine at pc has behind it in an emitted call
StepsBehind(pc) ==
    CASE pc = "time" -> 1 [] pc = "msg" -> 2 [] pc = "format" -> 3 [] pc = "put" -> 4
      [] pc = "done" -> 5 [] OTHER -> 0

\* C19: an emitted call takes the steps Get, Time, Message, Format, Put in this
\* order and once each: what a goroutine has done of its call is the beginning of
\* that order, all of it once the call is over; from the Get up to the Put, the
\* time Format runs included, its Entry is in no pool.
C19_CallStepsInOrder ==
    \A t \in Threads :
        thr[t].op \in {"Print", "Printf"} =>
            /\ thr[t].did =
                   SubSeq(CallOrder, 1, IF thr[t].pc = "done" /\ thr[t].e = 0 THEN 0
                                        ELSE StepsBehind(thr[t].pc))
            /\ thr[t].pc \in {"time", "msg", "format", "put"} =>
                   \A i \in 1..Len(pools) : thr[t].e \notin pools[i]
            /\ (thr[t].seen # <<>>) = (thr[t].pc \in {"put", "done"} /\ thr[t].e # 0)

\* C19's case: a call went through its five steps while the other goroutine was
\* inside a call on the same Log
C19_Witness ==
    \E t, u \in Threads :
        /\ t # u /\ thr[t].pc = "done" /\ thr[t].did = CallOrder
        /\ thr[u].pc \in {"msg", "format"} /\ thr[u].p.pool = thr[t].p.pool

----------------------------------------------------------------------------
(* Properties of SpecKeys *)

\* The file of a registered key, and the last element of a path
FileOf(k) == ljs[writes[logOut[k]].ptr].Filename
BaseName(f) == LET parts == Split(f, "/") IN parts[Len(parts)]
\* The two digits of a level below 100
TwoDigits(n) == <<Digit(n \div 10), Digit(n % 10)>>

\* C20: for one prefix, two different (level, category) pairs have different
\* registry keys and different files, and a file's name is
\* program_category-pid.log for level 0 and program_category_NN-pid.log, NN the
\* level in two digits, for any other level.
C20_RoutesApart ==
    \A prefix \in Prefixes, level \in KeyLevels, name \in Names :
        LET k == Key(level, name, prefix)
        IN  k \in DOMAIN logOut =>
                /\ BaseName(FileOf(k)) =
                       <<program, "_", name>>
                           \o (IF level = 0 THEN <<>> ELSE <<"_">> \o TwoDigits(level))
                           \o <<"-">> \o Itoa(pid) \o <<".log">>
                /\ \A level2 \in KeyLevels, name2 \in Names :
                       LET k2 == Key(level2, name2, prefix)
                       IN  (k2 \in DOMAIN logOut /\ <<level, name>> # <<level2, name2>>) =>
                               k # k2 /\ logOut[k] # logOut[k2] /\ FileOf(k) # FileOf(k2)

\* C20's case: the info and the error sink of level 3 under one prefix, side by side
C20_Witness ==
    /\ last.op = "getOut"
    /\ Key(3, "info", <<"a", ".", "b">>) \in DOMAIN logOut
    /\ Key(3, "error", <<"a", ".", "b">>) \in DOMAIN logOut

====
